---- MODULE Spec2Model ----
(***************************************************************************)
(* A model of visualization_modules/text_viz.py: the tokenizer, the        *)
(* word-statistics aggregator (generate_data), the value rescalers and the *)
(* three co-occurrence graph builders.                                     *)
(*                                                                         *)
(* Texts are sequences of one-character strings, tokens are sequences of   *)
(* characters, Python dicts are functions (DOMAIN = key set), Python lists *)
(* are sequences.  A networkx Graph is a record of its node insertion      *)
(* order, its node attributes, its per-node adjacency insertion order and  *)
(* its edge weights.  Floats are kept exact: a float is never rounded in   *)
(* the model, it is a quotient whose numerator and denominator are kept.   *)
(***************************************************************************)
EXTENDS Integers, Sequences, FiniteSets, TLC

VARIABLES df, call, ret

vars == <<df, call, ret>>

(***************************************************************************)
(* Bounds and input fixtures                                               *)
(***************************************************************************)
MaxRecords == 3

\* The rows a record table is made of: "Titel" as a character sequence,
\* "Bevilliget beløb" as amount.
Records ==
    { [Titel |-> <<"x", " ", "y">>,                amount |-> 1],
      [Titel |-> <<"Y", ",", "z">>,                amount |-> 2],
      [Titel |-> <<"x", " ", "y", " ", "z">>,      amount |-> 2],
      [Titel |-> <<"z", "-", "x">>,                amount |-> 1],
      [Titel |-> <<"X", " ", "s", " ", "x">>,      amount |-> 2],
      [Titel |-> <<"y", " ", "y", ".", " ", "Z">>, amount |-> 1] }

Titles == { r.Titel : r \in Records }

\* Values of funding_thresh_hold.
Thresholds == {0, 1, 3, 4}

\* Values of top_n: MinTopN .. MaxTopN.
MaxTopN == 4

TopNs == (0 - 1)..MaxTopN

\* Values of the words argument of generate_graph_data_words.
WordLists ==
    { << >>,
      << <<"x">>, <<"y">> >>,
      << <<"z">>, <<"y">>, <<"x">> >>,
      << <<"y">>, <<"q">>, <<"z">> >>,
      << <<"x">>, <<"x">> >>,
      << <<"x">>, <<"y">>, <<"x">> >> }

\* Inputs of the rescalers: lists of 1..MaxListLen values in 0..MaxValue.
MaxListLen == 4

MaxValue == 5

Values == 0..MaxValue

NumberLists == UNION { [1..n -> Values] : n \in 1..MaxListLen }

\* Values of the second and third argument of rescale_to_range.
Targets == {0, 1, 10, 100}

\* Keys of the word_dict argument of scale_word_dict.
DictKeys == {"a", "b", "c"}

WordDicts == UNION { [K -> Values] : K \in (SUBSET DictKeys) \ {{}} }

\* Inputs of tokenize_and_stem: every text of at most MaxTextLen characters
\* of TextChars, and two longer texts.
MaxTextLen == 3

TextChars == {"a", "B", "t", ",", " ", "-"}

\* "Cat, cat CAT!"
CatText == <<"C", "a", "t", ",", " ", "c", "a", "t", " ", "C", "A", "T", "!">>

\* "b-A (at) B.s"
LongText == <<"b", "-", "A", " ", "(", "a", "t", ")", " ", "B", ".", "s">>

Texts == (UNION { [1..n -> TextChars] : n \in 0..MaxTextLen }) \cup {CatText, LongText}

\* The words of STOPWORDS and of the lines of the stopword file: the empty
\* line of a file that ends in a newline, lowercase and uppercase entries.
ListedWords == { << >>, <<"a">>, <<"B">>, <<"c", "a", "t">> }

StopLists == SUBSET ListedWords

(***************************************************************************)
(* Helpers for Python containers                                           *)
(***************************************************************************)
EmptyDict == << >>

Put(d, k, v) == [x \in (DOMAIN d) \cup {k} |-> IF x = k THEN v ELSE d[x]]

Range(s) == {s[i] : i \in 1..Len(s)}

Min(a, b) == IF a <= b THEN a ELSE b

Max(a, b) == IF a >= b THEN a ELSE b

\* All orders in which a set of strings can be iterated: the iteration order
\* of a Python set of str depends on the process's string hash seed.
Orders(S) ==
    { o \in [1..Cardinality(S) -> S] : \A i, j \in 1..Cardinality(S) : o[i] = o[j] => i = j }

\* list(s) for a Python set s, under the iteration order ord.
ListOfSet(S, ord) == SelectSeq(ord, LAMBDA t : t \in S)

(***************************************************************************)
(* tokenize_and_stem                                                       *)
(***************************************************************************)
\* replace_chars = "; ,.:;*'_#!?´-()^"
replace_chars ==
    {";", " ", ",", ".", ":", "*", "'", "_", "#", "!", "?", "´", "-", "(", ")", "^"}

\* Characters str.split() splits on.
Whitespace == {" ", "\t", "\n"}

\* str.lower() on one character of the model's alphabet.
LowerChar(c) ==
    CASE c = "A" -> "a"
      [] c = "B" -> "b"
      [] c = "C" -> "c"
      [] c = "X" -> "x"
      [] c = "Y" -> "y"
      [] c = "Z" -> "z"
      [] c = "S" -> "s"
      [] c = "T" -> "t"
      [] OTHER -> c

\* Mutant: the token keeps its case.
KeepCase(token) == token

lower(token) == [i \in 1..Len(token) |-> LowerChar(token[i])]

\* The stopwords of get_stop_words() that can be written in the model's
\* alphabet: entries of cust_stop_w.
get_stop_words ==
    { <<"-">>, <<"s">>, <<"t">>, <<"1">>, <<"2">>, <<"n", "o">> }

\* for char in replace_chars: text = text.replace(char, " ")
ReplaceChars(text) ==
    [i \in 1..Len(text) |-> IF text[i] \in replace_chars THEN " " ELSE text[i]]

RECURSIVE SplitFrom(_, _, _)
SplitFrom(text, i, cur) ==
    IF i > Len(text)
    THEN IF cur = << >> THEN << >> ELSE <<cur>>
    ELSE IF text[i] \in Whitespace
         THEN IF cur = << >>
              THEN SplitFrom(text, i + 1, << >>)
              ELSE <<cur>> \o SplitFrom(text, i + 1, << >>)
         ELSE SplitFrom(text, i + 1, Append(cur, text[i]))

\* text.split()
split(text) == SplitFrom(text, 1, << >>)

\* get_stop_words() when STOPWORDS and the stopword file hold the words
\* `listed` besides cust_stop_w: list membership is all the tokenizer uses.
StopWordsWith(listed) == listed \cup get_stop_words

\* The set `tokens` built by the loop of tokenize_and_stem, for the value
\* `stopwords` that get_stop_words() returned.
TokensOf(text, stopwords) ==
    LET pieces == split(ReplaceChars(text))
    IN  { lower(pieces[i]) : i \in 1..Len(pieces) } \ stopwords

\* The same with no listed word that the model's alphabet can spell.
TokenSet(text) == TokensOf(text, get_stop_words)

\* Mutant: the tokens are collected in a list, a repeated token stays repeated.
TokenizeKeepingRepeats(text, ord) ==
    LET pieces == split(ReplaceChars(text))
        lowered == [i \in 1..Len(pieces) |-> lower(pieces[i])]
    IN  SelectSeq(lowered, LAMBDA token : token \notin get_stop_words)

\* tokenize_and_stem(text): list(tokens), in the set's iteration order.
tokenize_and_stem(text, ord) == ListOfSet(TokenSet(text), ord)

\* Every token a title of the fixture can give.
Vocab == UNION { TokenSet(t) : t \in Titles }

HashOrders == Orders(Vocab)

\* Values of the word argument of generate_graph_data_word: every token of
\* the fixture and one word no title holds.
EgoWords == Vocab \cup { <<"q">> }

(***************************************************************************)
(* generate_data                                                           *)
(***************************************************************************)
\* Mutant: the lower bound is strict.
FilterDictStrict(dictionary, lower_thresh) ==
    LET keep == { key \in DOMAIN dictionary : lower_thresh < dictionary[key] }
    IN  [key \in keep |-> dictionary[key]]

_filter_dict(dictionary, lower_thresh) ==
    \* upper_thresh keeps its default inf at the only call: val <= inf holds
    LET keep == { key \in DOMAIN dictionary : lower_thresh <= dictionary[key] }
    IN  [key \in keep |-> dictionary[key]]

_make_same_keys(filtered_dict, non_filtered_dict) ==
    [key \in DOMAIN filtered_dict |-> non_filtered_dict[key]]

\* The inner loop of generate_data: for token in tokens
RECURSIVE CountTokens(_, _, _, _)
CountTokens(acc, tokens, i, amount) ==
    IF i > Len(tokens)
    THEN acc
    ELSE LET token == tokens[i]
         IN  IF token \notin DOMAIN acc.freqs
             THEN CountTokens([freqs   |-> Put(acc.freqs, token, 1),
                               funding |-> Put(acc.funding, token, amount)],
                              tokens, i + 1, amount)
             ELSE CountTokens([freqs   |-> Put(acc.freqs, token, acc.freqs[token] + 1),
                               funding |-> Put(acc.funding, token, acc.funding[token] + amount)],
                              tokens, i + 1, amount)

\* The outer loop of generate_data: for text, amount in zip(...)
RECURSIVE CountRecords(_, _, _, _)
CountRecords(acc, table, r, ord) ==
    IF r > Len(table)
    THEN acc
    ELSE CountRecords(CountTokens(acc, tokenize_and_stem(table[r].Titel, ord), 1,
                                  table[r].amount),
                      table, r + 1, ord)

\* Mutant: the quotient is rounded up.
CeilDiv(a, b) == 0 - ((0 - a) \div b)

\* funding[key] // freqs[key]
FloorDiv(a, b) == a \div b

generate_data(table, funding_thresh_hold, ord) ==
    LET counted == CountRecords([freqs |-> EmptyDict, funding |-> EmptyDict], table, 1, ord)
        funding == _filter_dict(counted.funding, funding_thresh_hold)
        freqs   == _make_same_keys(funding, counted.freqs)
        avg_funding == [key \in DOMAIN funding |-> FloorDiv(funding[key], freqs[key])]
    IN  [avg_funding |-> avg_funding, funding |-> funding, freqs |-> freqs]

(***************************************************************************)
(* The value rescalers.  A float is the exact quotient num / den, den > 0. *)
(***************************************************************************)
Quot(n, d) == [num |-> n, den |-> d]

\* Mutant: the result is rounded down.
floor(q) == q.num \div q.den

\* math.ceil of a quotient
ceil(q) == 0 - ((0 - q.num) \div q.den)

\* val < q and q < val, for an integer val and a quotient q
LtQ(val, q) == val * q.den < q.num

GtQ(val, q) == val * q.den > q.num

RECURSIVE MaxOf(_)
MaxOf(list) ==
    IF Len(list) = 1 THEN list[1] ELSE Max(Head(list), MaxOf(Tail(list)))

RECURSIVE MinOf(_)
MinOf(list) ==
    IF Len(list) = 1 THEN list[1] ELSE Min(Head(list), MinOf(Tail(list)))

\* The values of a dict, as a list (in any order: only min and max are taken).
RECURSIVE DictValues(_)
DictValues(d) ==
    IF DOMAIN d = {}
    THEN << >>
    ELSE LET k == CHOOSE x \in DOMAIN d : TRUE
         IN  <<d[k]>> \o DictValues([x \in (DOMAIN d) \ {k} |-> d[x]])

\* Mutant: a list of equal values is pinned to new_max.
RescalePinnedToMax(number_list, new_max, new_min) ==
    LET old_range == MaxOf(number_list) - MinOf(number_list)
        new_range == new_max - new_min
        z_val(val) ==
            IF old_range = 0
            THEN Quot(new_max, 1)
            ELSE Quot((val - MinOf(number_list)) * new_range + new_min * old_range,
                      old_range)
    IN  [i \in 1..Len(number_list) |-> ceil(z_val(number_list[i]))]

\* rescale_to_range(number_list, new_max, new_min): the parameters in the
\* order of the signature.
rescale_to_range(number_list, new_max, new_min) ==
    LET old_range == MaxOf(number_list) - MinOf(number_list)
        new_range == new_max - new_min
        z_val(val) ==
            IF old_range = 0
            THEN Quot(new_min, 1)
            ELSE Quot((val - MinOf(number_list)) * new_range + new_min * old_range,
                      old_range)
    IN  [i \in 1..Len(number_list) |-> ceil(z_val(number_list[i]))]

\* The default levels of rescale_to_percentiles.
lowest == 2

median == 4

second_highest == 6

highest == 8

\* _cal_percentile(number_list, percentile), percentile given in hundredths
_cal_percentile(number_list, percentile) == Quot(MaxOf(number_list) * percentile, 100)

rescale_to_percentiles(number_list) ==
    LET lowest_25 == _cal_percentile(number_list, 25)
        lowest_50 == _cal_percentile(number_list, 50)
        lowest_75 == _cal_percentile(number_list, 75)
        level(val) ==
            IF LtQ(val, lowest_25) THEN lowest
            ELSE IF GtQ(val, lowest_25) /\ LtQ(val, lowest_50) THEN median
            ELSE IF GtQ(val, lowest_50) /\ LtQ(val, lowest_75) THEN second_highest
            ELSE highest
    IN  [i \in 1..Len(number_list) |-> level(number_list[i])]

\* Mutant: the value is not inverted.
KeepPerc(val) == val

\* _get_remaining_perc(val) = 100 - val
_get_remaining_perc(val) == Quot(100 * val.den - val.num, val.den)

\* The default range arguments of _color_scaling.
color_new_min == 15

color_new_max == 60

color_old_min == 0

color_old_max == 100

_color_scaling(val0) ==
    LET val == _get_remaining_perc(val0)
        old_range == color_old_max - color_old_min
        new_range == color_new_max - color_new_min
    IN  Quot((val.num - color_old_min * val.den) * new_range
                 + color_new_min * old_range * val.den,
             val.den * old_range)

\* scale_word_dict(word_dict): the division by max_val - min_val raises
\* ZeroDivisionError when all values are equal.
scale_word_dict(word_dict) ==
    LET min_val == MinOf(DictValues(word_dict))
        max_val == MaxOf(DictValues(word_dict))
    IN  IF max_val - min_val = 0
        THEN [raised |-> "ZeroDivisionError"]
        ELSE [raised |-> "nothing",
              value  |-> [key \in DOMAIN word_dict |->
                            _color_scaling(Quot((word_dict[key] - min_val) * 100,
                                                max_val - min_val))]]

(***************************************************************************)
(* networkx.Graph                                                          *)
(*   nodes  : the nodes in insertion order                                 *)
(*   attr   : node -> attribute dict                                       *)
(*   adj    : node -> its neighbours in insertion order                    *)
(*   weight : {u, v} -> the edge's "weight" attribute                      *)
(***************************************************************************)
EmptyGraph == [nodes |-> << >>, attr |-> << >>, adj |-> << >>, weight |-> << >>]

\* G.add_node(n, **a): a new node goes last; an old one has its attributes updated.
add_node(G, n, a) ==
    IF n \in Range(G.nodes)
    THEN [G EXCEPT !.attr = Put(G.attr, n, a)]
    ELSE [G EXCEPT !.nodes = Append(G.nodes, n),
                   !.attr  = Put(G.attr, n, a),
                   !.adj   = Put(G.adj, n, << >>)]

has_edge(G, u, v) == u \in DOMAIN G.adj /\ v \in Range(G.adj[u])

\* G.add_edge(u, v, weight = w) between two nodes of G that are not yet linked.
add_edge(G, u, v, w) ==
    LET adj1 == Put(G.adj, u, Append(G.adj[u], v))
        adj2 == IF u = v THEN adj1 ELSE Put(adj1, v, Append(adj1[v], u))
    IN  [G EXCEPT !.adj = adj2, !.weight = Put(G.weight, {u, v}, w)]

\* G[u][v]["weight"] += 1
inc_weight(G, u, v) == [G EXCEPT !.weight = Put(G.weight, {u, v}, G.weight[{u, v}] + 1)]

\* if G.has_edge(u, v): G[u][v]["weight"] += 1  else: G.add_edge(u, v, weight = 1)
count_edge(G, u, v) ==
    IF has_edge(G, u, v) THEN inc_weight(G, u, v) ELSE add_edge(G, u, v, 1)

\* G.degree(n): a self-loop counts twice.
degree(G, n) == Len(G.adj[n]) + (IF n \in Range(G.adj[n]) THEN 1 ELSE 0)

\* G.edges(): every node in insertion order, with its neighbours not yet seen.
RECURSIVE EdgesFrom(_, _, _)
EdgesFrom(G, i, seen) ==
    IF i > Len(G.nodes)
    THEN << >>
    ELSE LET n  == G.nodes[i]
             nb == SelectSeq(G.adj[n], LAMBDA v : v \notin seen)
         IN  [j \in 1..Len(nb) |-> <<n, nb[j]>>] \o EdgesFrom(G, i + 1, seen \cup {n})

edges(G) == EdgesFrom(G, 1, {})

\* G.remove_edges_from(ebunch)
remove_edges_from(G, ebunch) ==
    LET gone(u, v) == <<u, v>> \in Range(ebunch) \/ <<v, u>> \in Range(ebunch)
        keys == { k \in DOMAIN G.weight : \A u \in k, v \in k : k = {u, v} => ~gone(u, v) }
    IN  [G EXCEPT !.adj = [n \in DOMAIN G.adj |->
                              SelectSeq(G.adj[n], LAMBDA v : ~gone(n, v))],
                  !.weight = [k \in keys |-> G.weight[k]]]

\* Mutant: no node is reported as isolated.
NoIsolates(G) == << >>

\* list(nx.isolates(G)): the nodes of degree 0
isolates(G) == SelectSeq(G.nodes, LAMBDA n : degree(G, n) = 0)

\* G.remove_nodes_from(nbunch)
remove_nodes_from(G, nbunch) ==
    LET del  == Range(nbunch)
        left == (DOMAIN G.attr) \ del
        keys == { k \in DOMAIN G.weight : k \cap del = {} }
    IN  [nodes  |-> SelectSeq(G.nodes, LAMBDA n : n \notin del),
         attr   |-> [n \in left |-> G.attr[n]],
         adj    |-> [n \in left |-> SelectSeq(G.adj[n], LAMBDA v : v \notin del)],
         weight |-> [k \in keys |-> G.weight[k]]]

(***************************************************************************)
(* The graph builders                                                      *)
(***************************************************************************)
\* nx.spring_layout(G, weight = "weight", k = ...): one position for every
\* node of G.  The coordinates are random floats that nothing in the module
\* computes with; a position is kept as one opaque value.
spring_layout(G) == [n \in DOMAIN G.attr |-> "xy"]

\* for node in G.nodes(): G.nodes[node]["pos"] = (x, y)
SetPos(G) ==
    LET pos == spring_layout(G)
    IN  [G EXCEPT !.attr = [n \in DOMAIN G.attr |-> Put(G.attr[n], "pos", pos[n])]]

\* The attributes every builder gives a node it adds.
NodeAttrs(stats, tok) ==
    [avg_funding |-> stats.avg_funding[tok],
     funding     |-> stats.funding[tok],
     freqs       |-> stats.freqs[tok],
     total_deg   |-> 0]

\* list.remove(x): drops the first x of the list.
RECURSIVE list_remove(_, _)
list_remove(list, x) ==
    IF list = << >>
    THEN << >>
    ELSE IF Head(list) = x
         THEN Tail(list)
         ELSE <<Head(list)>> \o list_remove(Tail(list), x)

\* for s_tok in source_list: G.add_node(s_tok, ...)
RECURSIVE AddNodes(_, _, _, _)
AddNodes(G, source_list, i, stats) ==
    IF i > Len(source_list)
    THEN G
    ELSE AddNodes(add_node(G, source_list[i], NodeAttrs(stats, source_list[i])),
                  source_list, i + 1, stats)

\* for targ_tok in temp_targ_list: count the edge (s_tok, targ_tok)
RECURSIVE LinkTargets(_, _, _, _)
LinkTargets(G, s_tok, temp_targ_list, j) ==
    IF j > Len(temp_targ_list)
    THEN G
    ELSE LinkTargets(count_edge(G, s_tok, temp_targ_list[j]), s_tok, temp_targ_list, j + 1)

\* for s_tok in source_list: temp_targ_list = targ_list; temp_targ_list.remove(s_tok); ...
\* temp_targ_list is another name of targ_list, so every removal stays.
RECURSIVE LinkSources(_, _, _, _)
LinkSources(G, source_list, i, targ_list) ==
    IF i > Len(source_list)
    THEN G
    ELSE LET temp_targ_list == list_remove(targ_list, source_list[i])
         IN  LinkSources(LinkTargets(G, source_list[i], temp_targ_list, 1),
                         source_list, i + 1, temp_targ_list)

\* Mutant: the loop that stores the degrees is left out.
SetTotalDegSkipped(G) == G

\* for node, deg in G.degree(): G.nodes[node]['total_deg'] = deg
SetTotalDeg(G) ==
    [G EXCEPT !.attr = [n \in DOMAIN G.attr |->
                           [G.attr[n] EXCEPT !.total_deg = degree(G, n)]]]

\* edge_weights: (e, weight) for e in G.edges()
EdgeWeights(G) ==
    LET E == edges(G)
    IN  [i \in 1..Len(E) |-> <<E[i], G.weight[{E[i][1], E[i][2]}]>>]

\* sorted(tuple_list, key = second item, reverse = True): stable, so tuples of
\* equal weight keep their order.
RECURSIVE InsertDesc(_, _)
InsertDesc(sorted, x) ==
    IF sorted = << >>
    THEN <<x>>
    ELSE IF Head(sorted)[2] >= x[2]
         THEN <<Head(sorted)>> \o InsertDesc(Tail(sorted), x)
         ELSE <<x>> \o sorted

\* Mutant: reverse = True is left out, the sort is ascending.
RECURSIVE InsertAsc(_, _)
InsertAsc(sorted, x) ==
    IF sorted = << >>
    THEN <<x>>
    ELSE IF Head(sorted)[2] <= x[2]
         THEN <<Head(sorted)>> \o InsertAsc(Tail(sorted), x)
         ELSE <<x>> \o sorted

RECURSIVE SortAscending(_)
SortAscending(tuple_list) ==
    IF tuple_list = << >>
    THEN << >>
    ELSE InsertAsc(SortAscending(SubSeq(tuple_list, 1, Len(tuple_list) - 1)),
                   tuple_list[Len(tuple_list)])

RECURSIVE _sort_tuples(_)
_sort_tuples(tuple_list) ==
    IF tuple_list = << >>
    THEN << >>
    ELSE InsertDesc(_sort_tuples(SubSeq(tuple_list, 1, Len(tuple_list) - 1)),
                    tuple_list[Len(tuple_list)])

\* list[ : stop], a Python slice: a negative stop counts from the end.
SliceTo(list, stop) ==
    LET n == Len(list)
        k == IF stop >= 0 THEN Min(stop, n) ELSE Max(n + stop, 0)
    IN  SubSeq(list, 1, k)

\* top_n_edges = [e for e, _ in _sort_tuples(edge_weights)[ : top_n - 1]]
TopNEdges(G, top_n) ==
    LET kept == SliceTo(_sort_tuples(EdgeWeights(G)), top_n - 1)
    IN  [i \in 1..Len(kept) |-> kept[i][1]]

\* Keep the top_n_edges, remove the other edges, then the isolated nodes.
Prune(G, top_n) ==
    LET top_n_edges  == TopNEdges(G, top_n)
        edges_remove == SelectSeq(edges(G), LAMBDA e : e \notin Range(top_n_edges))
        G1 == remove_edges_from(G, edges_remove)
    IN  remove_nodes_from(G1, isolates(G1))

\* generate_graph_data_all: one record of the loop over df["Titel"]
AllRecord(G, text, stats, ord) ==
    LET tokens == tokenize_and_stem(text, ord)
    IN  LinkSources(AddNodes(G, tokens, 1, stats), tokens, 1, tokens)

RECURSIVE AllLoop(_, _, _, _, _)
AllLoop(G, table, r, stats, ord) ==
    IF r > Len(table)
    THEN G
    ELSE AllLoop(AllRecord(G, table[r].Titel, stats, ord), table, r + 1, stats, ord)

\* generate_graph_data_all(df, top_n): the graph before pruning and layout
\* (built), the graph returned (G) and the local pos, what spring_layout
\* returned for the pruned graph.
generate_graph_data_all(table, top_n, ord) ==
    LET stats == generate_data(table, 0, ord)
        built == SetTotalDeg(AllLoop(EmptyGraph, table, 1, stats, ord))
        pruned == Prune(built, top_n)
    IN  [G |-> SetPos(pruned), built |-> built, pos |-> spring_layout(pruned)]

\* Mutant: a target is linked to the target before it, not to the word.
RECURSIVE WordTargetsChained(_, _, _, _, _)
WordTargetsChained(G, word, targ_list, j, stats) ==
    IF j > Len(targ_list)
    THEN G
    ELSE WordTargetsChained(
             count_edge(add_node(G, targ_list[j], NodeAttrs(stats, targ_list[j])),
                        IF j = 1 THEN word ELSE targ_list[j - 1], targ_list[j]),
             word, targ_list, j + 1, stats)

\* generate_graph_data_word: for targ_tok in targ_list
RECURSIVE WordTargets(_, _, _, _, _)
WordTargets(G, word, targ_list, j, stats) ==
    IF j > Len(targ_list)
    THEN G
    ELSE WordTargets(count_edge(add_node(G, targ_list[j], NodeAttrs(stats, targ_list[j])),
                                word, targ_list[j]),
                     word, targ_list, j + 1, stats)

\* generate_graph_data_word: one record of the loop over df["Titel"]
WordRecord(G, text, word, stats, ord) ==
    LET tokens == tokenize_and_stem(text, ord)
    IN  IF word \notin Range(tokens)
        THEN G
        ELSE LET targ_list == SelectSeq(tokens, LAMBDA token : ~(word = token))
             IN  WordTargets(add_node(G, word, NodeAttrs(stats, word)),
                             word, targ_list, 1, stats)

RECURSIVE WordLoop(_, _, _, _, _, _)
WordLoop(G, table, r, word, stats, ord) ==
    IF r > Len(table)
    THEN G
    ELSE WordLoop(WordRecord(G, table[r].Titel, word, stats, ord),
                  table, r + 1, word, stats, ord)

generate_graph_data_word(table, word, top_n, ord) ==
    LET stats == generate_data(table, 0, ord)
        built == SetTotalDeg(WordLoop(EmptyGraph, table, 1, word, stats, ord))
        pruned == Prune(built, top_n)
    IN  [G |-> SetPos(pruned), built |-> built, pos |-> spring_layout(pruned)]

\* search_words: for token in tokens: for word in words: if token == word: append
RECURSIVE SearchWords(_, _, _)
SearchWords(tokens, i, words) ==
    IF i > Len(tokens)
    THEN << >>
    ELSE LET hits == SelectSeq(words, LAMBDA word : tokens[i] = word)
         IN  [j \in 1..Len(hits) |-> tokens[i]] \o SearchWords(tokens, i + 1, words)

\* generate_graph_data_words: one record of the loop over df["Titel"]
WordsRecord(G, text, words, stats, ord) ==
    LET tokens       == tokenize_and_stem(text, ord)
        search_words == SearchWords(tokens, 1, words)
    IN  IF Len(search_words) <= 1
        THEN G
        ELSE LinkSources(AddNodes(G, search_words, 1, stats),
                         search_words, 1, search_words)

RECURSIVE WordsLoop(_, _, _, _, _, _)
WordsLoop(G, table, r, words, stats, ord) ==
    IF r > Len(table)
    THEN G
    ELSE WordsLoop(WordsRecord(G, table[r].Titel, words, stats, ord),
                   table, r + 1, words, stats, ord)

\* generate_graph_data_words(df, words): no pruning, no removal of nodes;
\* built is the graph before layout.
generate_graph_data_words(table, words, ord) ==
    LET stats == generate_data(table, 0, ord)
        built == SetTotalDeg(WordsLoop(EmptyGraph, table, 1, words, stats, ord))
    IN  [G |-> SetPos(built), built |-> built, pos |-> spring_layout(built)]

(***************************************************************************)
(* plot_graph                                                              *)
(***************************************************************************)
\* The default node sizes of plot_graph.
max_node_size == 50

min_node_size == 20

\* Python's None, as plot_graph returns it.
None == [kind |-> "None"]

\* Mutant: the guard on the number of nodes is one too low.
FewerThanOneNode(G) == Len(G.nodes) < 1

\* len(G.nodes()) < 2
FewerThanTwoNodes(G) == Len(G.nodes) < 2

\* plot_graph(G): None, the exception a statement raises, or the figure, kept
\* as the lists the traces are made of.  max() of an empty list raises
\* ValueError, a node attribute that is not there raises KeyError.
plot_graph(G) ==
    IF FewerThanTwoNodes(G)
    THEN [raised |-> "nothing", value |-> None]
    ELSE LET E == edges(G)
             hover_text == [i \in 1..Len(G.nodes) |->
                              [word        |-> G.nodes[i],
                               total_deg   |-> G.attr[G.nodes[i]].total_deg,
                               freqs       |-> G.attr[G.nodes[i]].freqs,
                               avg_funding |-> G.attr[G.nodes[i]].avg_funding,
                               funding     |-> G.attr[G.nodes[i]].funding]]
             weights == [i \in 1..Len(E) |-> G.weight[{E[i][1], E[i][2]}]]
             node_sizes == [i \in 1..Len(G.nodes) |-> G.attr[G.nodes[i]].total_deg]
         IN  IF weights = << >>
             THEN [raised |-> "ValueError"]
             ELSE IF \E n \in Range(G.nodes) : "pos" \notin DOMAIN G.attr[n]
             THEN [raised |-> "KeyError"]
             ELSE LET edge_colors == rescale_to_range(weights, 150, 220)
                      edge_sizes  == rescale_to_range(weights, 10, 1)
                  IN  [raised |-> "nothing",
                       value  |->
                          [kind        |-> "figure",
                           edge_traces |-> [i \in 1..Len(E) |->
                                              [edge  |-> E[i],
                                               color |-> edge_colors[i],
                                               width |-> edge_sizes[i]]],
                           edge_labels |-> weights,
                           hover_text  |-> hover_text,
                           text        |-> G.nodes,
                           marker_size |-> rescale_to_range(node_sizes, max_node_size,
                                                            min_node_size),
                           text_size   |-> rescale_to_range(node_sizes, 18, 14)]]

(***************************************************************************)
(* create_bar_plot                                                         *)
(***************************************************************************)
\* df.sort_values(by = x_col, ascending = True), as the row labels in their
\* new order: every order of the labels with x_col non-decreasing.  The
\* default sort is not stable, rows of equal x_col come in any order.
sort_values(table) ==
    { o \in [1..Len(table) -> 1..Len(table)] :
        /\ \A i, j \in 1..Len(table) : o[i] = o[j] => i = j
        /\ \A i, j \in 1..Len(table) : i < j => table[o[i]].x <= table[o[j]].x }

\* df.head(n): the first n rows, all but the last -n for a negative n.
head(rows, n) == SliceTo(rows, n)

\* create_bar_plot(df, x_col, color_col, top_n = top_n): the rows handed to
\* px.bar, as row labels of df, for the sorted order `sorted`.
create_bar_plot(table, top_n, sorted) == head(sorted, top_n)

(***************************************************************************)
(* Actions                                                                 *)
(***************************************************************************)
NoCall == [op |-> "none"]

Init ==
    /\ df = << >>
    /\ call = NoCall
    /\ ret = NoCall

\* The caller appends one record to the table, before any call is made.
AddRecord ==
    /\ call = NoCall
    /\ Len(df) < MaxRecords
    /\ \E record \in Records : df' = Append(df, record)
    /\ UNCHANGED <<call, ret>>

GenerateData ==
    /\ call.op \in {"none", "generate_data"}
    /\ \E th \in Thresholds, ord \in HashOrders :
          /\ call' = [op |-> "generate_data", funding_thresh_hold |-> th]
          /\ ret' = generate_data(df, th, ord)
    /\ UNCHANGED df

\* generate_graph_data_all(df, top_n)
GraphAll ==
    /\ call = NoCall
    /\ \E top_n \in TopNs, ord \in HashOrders :
          /\ call' = [op |-> "generate_graph_data_all", top_n |-> top_n]
          /\ ret' = generate_graph_data_all(df, top_n, ord)
    /\ UNCHANGED df

\* generate_graph_data_word(df, word, top_n)
GraphWord ==
    /\ call = NoCall
    /\ \E word \in EgoWords, top_n \in TopNs, ord \in HashOrders :
          /\ call' = [op |-> "generate_graph_data_word", word |-> word, top_n |-> top_n]
          /\ ret' = generate_graph_data_word(df, word, top_n, ord)
    /\ UNCHANGED df

\* generate_graph_data_words(df, words)
GraphWords ==
    /\ call = NoCall
    /\ \E words \in WordLists, ord \in HashOrders :
          /\ call' = [op |-> "generate_graph_data_words", words |-> words]
          /\ ret' = generate_graph_data_words(df, words, ord)
    /\ UNCHANGED df

Next ==
    \/ AddRecord
    \/ GenerateData
    \/ GraphAll
    \/ GraphWord
    \/ GraphWords

Spec == Init /\ [][Next]_vars

(***************************************************************************)
(* The rescalers as a specification of their own: the initial state holds  *)
(* a pending call with its arguments, the action runs it.                  *)
(***************************************************************************)
InitScale ==
    /\ df = << >>
    /\ ret = NoCall
    /\ \/ \E number_list \in NumberLists, a \in Targets, b \in Targets :
             call = [op |-> "rescale_to_range", number_list |-> number_list,
                     arg2 |-> a, arg3 |-> b]
       \/ \E number_list \in NumberLists :
             call = [op |-> "rescale_to_percentiles", number_list |-> number_list]
       \/ \E word_dict \in WordDicts :
             call = [op |-> "scale_word_dict", word_dict |-> word_dict]

\* rescale_to_range(number_list, arg2, arg3), the arguments given by position
RescaleToRange ==
    /\ call.op = "rescale_to_range"
    /\ ret = NoCall
    /\ ret' = [raised |-> "nothing",
               value  |-> rescale_to_range(call.number_list, call.arg2, call.arg3)]
    /\ UNCHANGED <<df, call>>

RescaleToPercentiles ==
    /\ call.op = "rescale_to_percentiles"
    /\ ret = NoCall
    /\ ret' = [raised |-> "nothing", value |-> rescale_to_percentiles(call.number_list)]
    /\ UNCHANGED <<df, call>>

ScaleWordDict ==
    /\ call.op = "scale_word_dict"
    /\ ret = NoCall
    /\ ret' = scale_word_dict(call.word_dict)
    /\ UNCHANGED <<df, call>>

NextScale ==
    \/ RescaleToRange
    \/ RescaleToPercentiles
    \/ ScaleWordDict

SpecScale == InitScale /\ [][NextScale]_vars

(***************************************************************************)
(* The builder / renderer pipeline as a specification of its own: the      *)
(* initial state holds a table, a step calls one of the three builders,    *)
(* the next step hands the graph it returned to plot_graph.                *)
(***************************************************************************)
MaxPlotRecords == 2

PlotTables == UNION { [1..n -> Records] : n \in 0..MaxPlotRecords }

InitPlot ==
    /\ df \in PlotTables
    /\ call = NoCall
    /\ ret = NoCall

\* plot_graph(G), G being the graph the builder returned
PlotGraph ==
    /\ call.op \in {"generate_graph_data_all", "generate_graph_data_word",
                    "generate_graph_data_words"}
    /\ "fig" \notin DOMAIN ret
    /\ ret' = [G |-> ret.G, built |-> ret.built, pos |-> ret.pos,
               fig |-> plot_graph(ret.G)]
    /\ UNCHANGED <<df, call>>

NextPlot ==
    \/ GraphAll
    \/ GraphWord
    \/ GraphWords
    \/ PlotGraph

SpecPlot == InitPlot /\ [][NextPlot]_vars

(***************************************************************************)
(* The bar plot as a specification of its own: the initial state holds the *)
(* table (a word and its x_col value in every row) and the pending call.   *)
(***************************************************************************)
MaxBarRows == 3

BarRows == [word : {"a", "b"}, x : 1..3]

BarTables == UNION { [1..n -> BarRows] : n \in 0..MaxBarRows }

InitBar ==
    /\ df \in BarTables
    /\ ret = NoCall
    /\ \E top_n \in TopNs : call = [op |-> "create_bar_plot", top_n |-> top_n]

CreateBarPlot ==
    /\ call.op = "create_bar_plot"
    /\ ret = NoCall
    /\ \E sorted \in sort_values(df) :
          ret' = [raised |-> "nothing", value |-> create_bar_plot(df, call.top_n, sorted)]
    /\ UNCHANGED <<df, call>>

NextBar == CreateBarPlot

SpecBar == InitBar /\ [][NextBar]_vars

(***************************************************************************)
(* The tokenizer as a specification of its own: the initial state holds a  *)
(* text and the words the stopword sources list; every step is one call of *)
(* tokenize_and_stem on that text, under some iteration order of its set.  *)
(***************************************************************************)
InitTok ==
    /\ df = << >>
    /\ ret = NoCall
    /\ \E text \in Texts, listed \in StopLists :
          call = [op |-> "tokenize_and_stem", text |-> text, listed |-> listed]

TokenizeAndStem ==
    /\ call.op = "tokenize_and_stem"
    /\ LET tokens == TokensOf(call.text, StopWordsWith(call.listed))
       IN  \E ord \in Orders(tokens) :
              ret' = [raised |-> "nothing", value |-> ListOfSet(tokens, ord)]
    /\ UNCHANGED <<df, call>>

NextTok == TokenizeAndStem

SpecTok == InitTok /\ [][NextTok]_vars

(***************************************************************************)
(* What the claims speak of, defined from the table and not from the       *)
(* functions under check.                                                  *)
(***************************************************************************)
Separators == replace_chars \cup Whitespace

\* The title holds the token t: a maximal run of non-separator characters
\* whose lowercase form is t, t not being a stopword.
HasToken(title, t) ==
    /\ t \notin get_stop_words
    /\ \E i \in 1..Len(title) :
          \E j \in i..Len(title) :
             /\ \A k \in i..j : title[k] \notin Separators
             /\ i = 1 \/ title[i - 1] \in Separators
             /\ j = Len(title) \/ title[j + 1] \in Separators
             /\ [k \in 1..(j - i + 1) |-> LowerChar(title[i + k - 1])] = t

\* The number of maximal runs of the title whose lowercase form is t.
Occurrences(title, t) ==
    Cardinality({ i \in 1..Len(title) :
        \E j \in i..Len(title) :
           /\ \A k \in i..j : title[k] \notin Separators
           /\ i = 1 \/ title[i - 1] \in Separators
           /\ j = Len(title) \/ title[j + 1] \in Separators
           /\ [k \in 1..(j - i + 1) |-> LowerChar(title[i + k - 1])] = t })

\* The rows of the table whose title holds every token of S.
RowsWith(S) == { r \in 1..Len(df) : \A t \in S : HasToken(df[r].Titel, t) }

RECURSIVE SumAmounts(_)
SumAmounts(rows) ==
    IF rows = {}
    THEN 0
    ELSE LET r == CHOOSE x \in rows : TRUE
         IN  df[r].amount + SumAmounts(rows \ {r})

GraphOps ==
    {"generate_graph_data_all", "generate_graph_data_word", "generate_graph_data_words"}

PruningOps == {"generate_graph_data_all", "generate_graph_data_word"}

\* The tokens every counted row must hold besides the edge's own: the target
\* word in the ego view.
Target == IF call.op = "generate_graph_data_word" THEN {call.word} ELSE {}

NoSelfLoop(G) == \A n \in DOMAIN G.adj : n \notin Range(G.adj[n])

WeightsCountRows(G) ==
    \A k \in DOMAIN G.weight :
        /\ Cardinality(k) = 2
        /\ G.weight[k] >= 1
        /\ G.weight[k] = Cardinality(RowsWith(k \cup Target))

(***************************************************************************)
(* C1: in the graph any of the three builders returns, for every table and *)
(* every argument value, no edge links a token to itself and the weight of *)
(* every edge {a, b} is a positive integer, the number of rows whose title *)
(* holds both a and b (and the target word, in the ego view).              *)
(***************************************************************************)
C1_NoSelfLoopWeightIsCoOccurrence ==
    call.op \in GraphOps => NoSelfLoop(ret.G) /\ WeightsCountRows(ret.G)

\* C1 holds of the global and ego builders, and of the sub-vocabulary
\* builder when no word is listed twice.
C1_HoldsWithoutRepeatedWords ==
    /\ call.op \in PruningOps => NoSelfLoop(ret.G) /\ WeightsCountRows(ret.G)
    /\ (/\ call.op = "generate_graph_data_words"
        /\ \A i, j \in 1..Len(call.words) : call.words[i] = call.words[j] => i = j)
       => NoSelfLoop(ret.G) /\ WeightsCountRows(ret.G)

(***************************************************************************)
(* Pruning, stated on the edges of the unpruned graph in the order         *)
(* G.edges() lists them, which is the order the sort receives them in.     *)
(***************************************************************************)
BuiltEdges == edges(ret.built)

EdgeKey(e) == {e[1], e[2]}

\* The i-th listed edge is an edge of the returned graph.
Kept(i) == EdgeKey(BuiltEdges[i]) \in DOMAIN ret.G.weight

\* Its weight, counted from the table.
RowWeight(i) == Cardinality(RowsWith(EdgeKey(BuiltEdges[i]) \cup Target))

\* The first row that holds the i-th listed edge: the row that created it.
FirstRow(i) ==
    CHOOSE r \in RowsWith(EdgeKey(BuiltEdges[i]) \cup Target) :
        \A q \in RowsWith(EdgeKey(BuiltEdges[i]) \cup Target) : r <= q

\* The returned graph keeps the n heaviest edges, all when there are fewer;
\* of two edges of equal weight the one listed first is preferred.
KeepsHeaviest(n) ==
    /\ Cardinality(DOMAIN ret.G.weight) <= n
    /\ Cardinality({ i \in 1..Len(BuiltEdges) : Kept(i) }) = Min(n, Len(BuiltEdges))
    /\ \A i, j \in 1..Len(BuiltEdges) :
          Kept(i) /\ ~Kept(j) =>
              \/ RowWeight(i) > RowWeight(j)
              \/ RowWeight(i) = RowWeight(j) /\ i < j

(***************************************************************************)
(* C2, as claimed: for the global and ego builders, for every table and    *)
(* every integer top_n, the returned graph has at most top_n - 1 edges     *)
(* and they are exactly the top_n - 1 heaviest edges of the unpruned       *)
(* graph (all when there are fewer), ties going to the edge met first.     *)
(***************************************************************************)
C2_Original_EveryTopN ==
    call.op \in PruningOps => KeepsHeaviest(call.top_n - 1)

(***************************************************************************)
(* C2, amended: the same for every top_n >= 1, "met first" being the order *)
(* of G.edges() on the unpruned graph.                                     *)
(***************************************************************************)
C2_KeepsTopNMinusOneHeaviest ==
    (call.op \in PruningOps /\ call.top_n >= 1) => KeepsHeaviest(call.top_n - 1)

\* C2's case: pruning dropped an edge as heavy as one it kept.
C2_Witness_TieBroken ==
    /\ call.op \in PruningOps
    /\ call.top_n >= 2
    /\ \E i, j \in 1..Len(BuiltEdges) :
          Kept(i) /\ ~Kept(j) /\ RowWeight(i) = RowWeight(j)
    /\ \E i, j \in 1..Len(BuiltEdges) :
          Kept(i) /\ ~Kept(j) /\ RowWeight(i) > RowWeight(j)

\* Not the order in which the rows created the edges: with top_n >= 1 an
\* edge can be kept over an equally heavy edge that an earlier row created.
C2_TiesInCreationOrder ==
    (call.op \in PruningOps /\ call.top_n >= 1) =>
        \A i, j \in 1..Len(BuiltEdges) :
            (Kept(i) /\ ~Kept(j) /\ RowWeight(i) = RowWeight(j))
                => FirstRow(i) <= FirstRow(j)

(***************************************************************************)
(* Degrees                                                                 *)
(***************************************************************************)
\* The number of edges of G at node n.
Incident(G, n) == Cardinality({ k \in DOMAIN G.weight : n \in k })

\* The tokens that share a counted row with n: n's neighbours before pruning.
Partners(n) ==
    { m \in Vocab \ {n} :
        /\ RowsWith({n, m} \cup Target) # {}
        /\ Target = {} \/ Target \subseteq {n, m} }

TableTokens == { t \in Vocab : RowsWith({t}) # {} }

\* The total funding of token t over the whole table.
TotalFunding(t) == SumAmounts(RowsWith({t}))

(***************************************************************************)
(* C4: after generate_data every surviving token t has freqs[t] equal to   *)
(* the number of rows whose title holds t at least once (a token repeated  *)
(* inside one title counts once, freqs[t] >= 1) and funding[t] equal to    *)
(* the sum of the amounts of exactly those rows.                           *)
(***************************************************************************)
C4_FreqsCountRowsFundingSumsThem ==
    call.op = "generate_data" =>
        \A t \in DOMAIN ret.freqs :
            /\ ret.freqs[t] = Cardinality(RowsWith({t}))
            /\ ret.freqs[t] >= 1
            /\ ret.funding[t] = SumAmounts(RowsWith({t}))

\* C4's case: a surviving token stands twice in one title and in several rows.
C4_Witness_RepeatedToken ==
    /\ call.op = "generate_data"
    /\ \E t \in DOMAIN ret.freqs :
          /\ \E r \in 1..Len(df) : Occurrences(df[r].Titel, t) >= 2
          /\ ret.freqs[t] >= 2
          /\ ret.funding[t] >= 3

(***************************************************************************)
(* C5: for every table and threshold, avg_funding[t] is the integer floor  *)
(* of funding[t] / freqs[t] for every surviving token t.                   *)
(***************************************************************************)
C5_AvgFundingIsFloor ==
    call.op = "generate_data" =>
        \A t \in DOMAIN ret.avg_funding :
            /\ ret.avg_funding[t] * ret.freqs[t] <= ret.funding[t]
            /\ ret.funding[t] < (ret.avg_funding[t] + 1) * ret.freqs[t]

\* C5's case: a funding that its frequency does not divide.
C5_Witness_InexactAverage ==
    /\ call.op = "generate_data"
    /\ \E t \in DOMAIN ret.avg_funding :
          ret.avg_funding[t] * ret.freqs[t] < ret.funding[t]

\* The keys of the three mappings, from the table.
KeysAreTokensAtOrAboveThreshold ==
    call.op = "generate_data" =>
        /\ DOMAIN ret.avg_funding = DOMAIN ret.funding
        /\ DOMAIN ret.freqs = DOMAIN ret.funding
        /\ DOMAIN ret.funding =
               { t \in TableTokens : TotalFunding(t) >= call.funding_thresh_hold }

RaisingThresholdAddsNoKey ==
    (/\ call.op = "generate_data"
     /\ call'.op = "generate_data"
     /\ call'.funding_thresh_hold >= call.funding_thresh_hold)
        => (DOMAIN ret'.funding) \subseteq (DOMAIN ret.funding)

Returned == ret # NoCall

AllEqual(list) == \A i, j \in 1..Len(list) : list[i] = list[j]

\* out is the ceiling of (v - lo_in) * (to_max - to_min) / (hi_in - lo_in) + to_min,
\* for hi_in > lo_in: the least integer not below it.
IsCeilingOfLinear(out, v, lo_in, hi_in, to_min, to_max) ==
    /\ (v - lo_in) * (to_max - to_min) <= (out - to_min) * (hi_in - lo_in)
    /\ (v - lo_in) * (to_max - to_min) > (out - to_min - 1) * (hi_in - lo_in)

\* The call rescale(values, new_min, new_max) of the claims, its arguments
\* passed in that order.
IsRescaleCall(values, new_min, new_max) ==
    /\ call.op = "rescale_to_range"
    /\ call.number_list = values
    /\ call.arg2 = new_min
    /\ call.arg3 = new_max

(***************************************************************************)
(* C7, as claimed: rescale(values, new_min, new_max), the arguments in     *)
(* that order, on a non-empty list of equal values returns new_min for     *)
(* every value; rescale([5, 5, 5], 1, 10) yields [1, 1, 1].                *)
(***************************************************************************)
C7_Original_EqualValuesGiveSecondArgument ==
    (call.op = "rescale_to_range" /\ Returned /\ AllEqual(call.number_list)) =>
        /\ \A i \in 1..Len(call.number_list) : ret.value[i] = call.arg2
        /\ IsRescaleCall(<<5, 5, 5>>, 1, 10) => ret.value = <<1, 1, 1>>

(***************************************************************************)
(* C7, amended: rescale_to_range(values, new_max, new_min), new_min being  *)
(* the third argument, on a non-empty list of equal values returns new_min *)
(* for every value; rescale_to_range([5, 5, 5], 1, 10) yields              *)
(* [10, 10, 10].                                                           *)
(***************************************************************************)
C7_EqualValuesGiveThirdArgument ==
    (call.op = "rescale_to_range" /\ Returned /\ AllEqual(call.number_list)) =>
        /\ Len(ret.value) = Len(call.number_list)
        /\ \A i \in 1..Len(call.number_list) : ret.value[i] = call.arg3
        /\ IsRescaleCall(<<5, 5, 5>>, 1, 10) => ret.value = <<10, 10, 10>>

\* C7's case: the call of the claim has returned.
C7_Witness_FiveFiveFive ==
    /\ IsRescaleCall(<<5, 5, 5>>, 1, 10)
    /\ Returned
    /\ ret.value = <<10, 10, 10>>

(***************************************************************************)
(* C8, as claimed: rescale(values, new_min, new_max), the arguments in     *)
(* that order, on a non-empty integer list with max > min maps the least   *)
(* value to new_min and the greatest to new_max, never maps a greater      *)
(* value to a lesser output, and every output is the ceiling of            *)
(* (v - min) * (new_max - new_min) / (max - min) + new_min;                *)
(* rescale([1, 2, 3, 4], 0, 100) maps 1 to 0 and 4 to 100.                 *)
(***************************************************************************)
C8_Original_SecondArgumentIsNewMin ==
    (/\ call.op = "rescale_to_range"
     /\ Returned
     /\ MaxOf(call.number_list) > MinOf(call.number_list)) =>
        LET list == call.number_list
            lo   == MinOf(list)
            hi   == MaxOf(list)
        IN  /\ \A i \in 1..Len(list) :
                  /\ list[i] = lo => ret.value[i] = call.arg2
                  /\ list[i] = hi => ret.value[i] = call.arg3
                  /\ IsCeilingOfLinear(ret.value[i], list[i], lo, hi, call.arg2, call.arg3)
            /\ \A i, j \in 1..Len(list) :
                  list[i] <= list[j] => ret.value[i] <= ret.value[j]
            /\ IsRescaleCall(<<1, 2, 3, 4>>, 0, 100) =>
                  ret.value[1] = 0 /\ ret.value[4] = 100

(***************************************************************************)
(* C8, amended: rescale_to_range(values, new_max, new_min), new_max being  *)
(* the second and new_min the third argument, on a non-empty integer list  *)
(* with max > min maps the least value to new_min and the greatest to      *)
(* new_max, every output is the ceiling of                                 *)
(* (v - min) * (new_max - new_min) / (max - min) + new_min, and a greater  *)
(* value never gets a lesser output when new_max >= new_min (never a       *)
(* greater one when new_max <= new_min);                                   *)
(* rescale_to_range([1, 2, 3, 4], 0, 100) maps 1 to 100 and 4 to 0.        *)
(***************************************************************************)
C8_SecondArgumentIsNewMax ==
    (/\ call.op = "rescale_to_range"
     /\ Returned
     /\ MaxOf(call.number_list) > MinOf(call.number_list)) =>
        LET list == call.number_list
            lo   == MinOf(list)
            hi   == MaxOf(list)
        IN  /\ \A i \in 1..Len(list) :
                  /\ list[i] = lo => ret.value[i] = call.arg3
                  /\ list[i] = hi => ret.value[i] = call.arg2
                  /\ IsCeilingOfLinear(ret.value[i], list[i], lo, hi, call.arg3, call.arg2)
            /\ \A i, j \in 1..Len(list) :
                  list[i] <= list[j] =>
                     /\ call.arg2 >= call.arg3 => ret.value[i] <= ret.value[j]
                     /\ call.arg2 <= call.arg3 => ret.value[i] >= ret.value[j]
            /\ IsRescaleCall(<<1, 2, 3, 4>>, 0, 100) =>
                  ret.value[1] = 100 /\ ret.value[4] = 0

\* C8's case: the list of the claim, rescaled to 0..100, with outputs the
\* ceiling rounds up.
C8_Witness_OneToFour ==
    /\ IsRescaleCall(<<1, 2, 3, 4>>, 100, 0)
    /\ Returned
    /\ ret.value = <<0, 34, 67, 100>>

(***************************************************************************)
(* C9: rescale_to_percentiles takes t25, t50, t75 as 25%, 50% and 75% of   *)
(* the greatest value and maps each value to one of the four levels by     *)
(* interval; a value equal to t25 or t50 gets the lower of the two         *)
(* adjacent levels (lowest, respectively median) and every value >= t75    *)
(* gets highest.  (Stated for a positive greatest value, where the three   *)
(* thresholds differ.)                                                     *)
(***************************************************************************)
C9_BoundaryValuesGetLowerLevel ==
    (/\ call.op = "rescale_to_percentiles"
     /\ Returned
     /\ MaxOf(call.number_list) > 0) =>
        LET list == call.number_list
            top  == MaxOf(list)
        IN  \A i \in 1..Len(list) :
               /\ 4 * list[i] <= top => ret.value[i] = lowest
               /\ (top < 4 * list[i] /\ 4 * list[i] <= 2 * top) => ret.value[i] = median
               /\ (2 * top < 4 * list[i] /\ 4 * list[i] < 3 * top)
                     => ret.value[i] = second_highest
               /\ 4 * list[i] >= 3 * top => ret.value[i] = highest

\* What the code does: a value strictly inside an interval gets the
\* interval's level, a value equal to t25 or t50 gets highest.
C9_BoundaryValuesGetHighest ==
    (/\ call.op = "rescale_to_percentiles"
     /\ Returned
     /\ MaxOf(call.number_list) > 0) =>
        LET list == call.number_list
            top  == MaxOf(list)
        IN  \A i \in 1..Len(list) :
               /\ 4 * list[i] < top => ret.value[i] = lowest
               /\ (top < 4 * list[i] /\ 4 * list[i] < 2 * top) => ret.value[i] = median
               /\ (2 * top < 4 * list[i] /\ 4 * list[i] < 3 * top)
                     => ret.value[i] = second_highest
               /\ 4 * list[i] >= 3 * top => ret.value[i] = highest
               /\ (4 * list[i] = top \/ 4 * list[i] = 2 * top) => ret.value[i] = highest

(***************************************************************************)
(* C10: each of rescale_to_range, rescale_to_percentiles and               *)
(* scale_word_dict is total on non-empty numeric input: for every such     *)
(* input, one of equal values included, it raises no error and returns a   *)
(* result of the input's length, respectively key set.                     *)
(***************************************************************************)
C10_RescalersAreTotal ==
    Returned =>
        /\ ret.raised = "nothing"
        /\ call.op \in {"rescale_to_range", "rescale_to_percentiles"}
              => Len(ret.value) = Len(call.number_list)
        /\ call.op = "scale_word_dict" => DOMAIN ret.value = DOMAIN call.word_dict

\* What the code does: scale_word_dict raises exactly on equal values.
C10_TotalButForEqualValuedDict ==
    Returned =>
        /\ call.op \in {"rescale_to_range", "rescale_to_percentiles"}
              => ret.raised = "nothing" /\ Len(ret.value) = Len(call.number_list)
        /\ call.op = "scale_word_dict" =>
              IF \A j, k \in DOMAIN call.word_dict : call.word_dict[j] = call.word_dict[k]
              THEN ret.raised = "ZeroDivisionError"
              ELSE ret.raised = "nothing" /\ DOMAIN ret.value = DOMAIN call.word_dict

(***************************************************************************)
(* scale_word_dict                                                         *)
(***************************************************************************)
\* The quotient q is the number n / d, d > 0.
QuotIs(q, n, d) == q.den > 0 /\ q.num * d = n * q.den

\* q <= n and q >= n, for a quotient q and an integer n
QuotLe(q, n) == q.num <= n * q.den

QuotGe(q, n) == q.num >= n * q.den

\* q1 <= q2, for two quotients of positive denominator
QuotLeQuot(q1, q2) == q1.num * q2.den <= q2.num * q1.den

\* The word_dict of the call has two values that differ.
TwoDistinctValues ==
    \E j, k \in DOMAIN call.word_dict : call.word_dict[j] # call.word_dict[k]

(***************************************************************************)
(* C11: scale_word_dict on a mapping with at least two distinct values is  *)
(* order-inverting and range-bounded: a key of greatest raw value maps to  *)
(* 15, a key of least raw value maps to 60, every output lies in [15, 60], *)
(* a larger raw value never gets a larger output, and every output is      *)
(* 60 - 45 * (v - min) / (max - min).                                      *)
(***************************************************************************)
C11_ScaleInvertsInto15To60 ==
    (call.op = "scale_word_dict" /\ Returned /\ TwoDistinctValues) =>
        LET d  == call.word_dict
            lo == CHOOSE v \in Range(DictValues(d)) : \A k \in DOMAIN d : v <= d[k]
            hi == CHOOSE v \in Range(DictValues(d)) : \A k \in DOMAIN d : v >= d[k]
        IN  /\ ret.raised = "nothing"
            /\ DOMAIN ret.value = DOMAIN d
            /\ \A k \in DOMAIN d :
                  /\ d[k] = hi => QuotIs(ret.value[k], 15, 1)
                  /\ d[k] = lo => QuotIs(ret.value[k], 60, 1)
                  /\ QuotGe(ret.value[k], 15)
                  /\ QuotLe(ret.value[k], 60)
                  /\ QuotIs(ret.value[k], 60 * (hi - lo) - 45 * (d[k] - lo), hi - lo)
            /\ \A j, k \in DOMAIN d :
                  d[j] > d[k] => QuotLeQuot(ret.value[j], ret.value[k])

\* C11's case: three keys of three values, the middle one scaled to a value
\* strictly between 15 and 60 that is not a whole number.
C11_Witness_ThreeLevels ==
    /\ call.op = "scale_word_dict"
    /\ Returned
    /\ ret.raised = "nothing"
    /\ \E j, k, m \in DOMAIN call.word_dict :
          /\ call.word_dict[j] < call.word_dict[k]
          /\ call.word_dict[k] < call.word_dict[m]
          /\ ~QuotLe(ret.value[k], 15)
          /\ ~QuotGe(ret.value[k], 60)
          /\ ret.value[k].num % ret.value[k].den # 0

(***************************************************************************)
(* tokenize_and_stem                                                       *)
(***************************************************************************)
\* The stopword collection of the call.
CallStopWords == call.listed \cup get_stop_words

\* The punctuation set, character by character: "; ,.:;*'_#!?´-()^"
Punctuation ==
    {";", " ", ",", ".", ":", "*", "'", "_", "#", "!", "?", "´", "-", "(", ")", "^"}

\* What every token of a returned list is.
TokensAreClean ==
    (call.op = "tokenize_and_stem" /\ Returned) =>
        /\ \A i, j \in 1..Len(ret.value) : ret.value[i] = ret.value[j] => i = j
        /\ \A i \in 1..Len(ret.value) :
              LET token == ret.value[i]
              IN  /\ Len(token) >= 1
                  /\ \A k \in 1..Len(token) :
                        /\ token[k] = LowerChar(token[k])
                        /\ token[k] \notin Punctuation
                  /\ token \notin CallStopWords
        /\ (call.text = CatText /\ <<"c", "a", "t">> \notin CallStopWords)
              => Range(ret.value) = { <<"c", "a", "t">> }

\* Between two calls on the same text with the same stopwords.
SameSetTwice ==
    (call.op = "tokenize_and_stem" /\ Returned /\ call' = call)
        => Range(ret'.value) = Range(ret.value)

(***************************************************************************)
(* C12: for every text and stopword collection, tokenize_and_stem returns  *)
(* a duplicate-free collection in which every token is non-empty, equal to *)
(* its own lowercase form, free of the characters of the punctuation set   *)
(* and not a member of the stopword collection; the result as a set        *)
(* depends only on the text and the stopwords (a second call gives the     *)
(* same set), and "Cat, cat CAT!", no stopword being "cat", gives exactly  *)
(* {"cat"}.                                                                *)
(***************************************************************************)
C12_TokensCleanAndSetDetermined ==
    []TokensAreClean /\ [][SameSetTwice]_vars

\* C12's case: a second call returned the tokens of a text in another order
\* than the first, a piece of the text having been dropped as a stopword.
C12_Witness_SameSetOtherOrder ==
    /\ call.op = "tokenize_and_stem"
    /\ Returned
    /\ call.text = LongText
    /\ call.listed = { <<"a">> }
    /\ ret.value = << <<"b">>, <<"a", "t">> >>

(***************************************************************************)
(* C13: in the graph the global or the ego builder returns, after the      *)
(* edges are pruned and the isolated nodes removed, every node has at      *)
(* least one surviving edge at it; so the graph has no node, or at least   *)
(* two nodes and at least one edge.                                        *)
(***************************************************************************)
C13_NoIsolatedNodeReturned ==
    call.op \in PruningOps =>
        LET G == ret.G
        IN  /\ \A n \in Range(G.nodes) :
                  \E k \in DOMAIN G.weight : n \in k /\ G.weight[k] >= 1
            /\ \/ Len(G.nodes) = 0
               \/ Len(G.nodes) >= 2 /\ Cardinality(DOMAIN G.weight) >= 1

\* C13's case: pruning took every edge of a node of the unpruned graph, the
\* node is gone from the returned graph and other nodes are left.
C13_Witness_IsolatedNodeRemoved ==
    /\ call.op \in PruningOps
    /\ Len(ret.G.nodes) >= 2
    /\ \E n \in Range(ret.built.nodes) :
          /\ Incident(ret.built, n) >= 1
          /\ n \notin Range(ret.G.nodes)

(***************************************************************************)
(* The builder / renderer pipeline                                         *)
(***************************************************************************)
Plotted == call.op \in GraphOps /\ "fig" \in DOMAIN ret

\* plot_graph returned None.
NoGraph == ret.fig.raised = "nothing" /\ ret.fig.value = [kind |-> "None"]

\* plot_graph returned a figure with a trace for every edge and a marker
\* and a label size for every node of the graph.
FigureOf(G) ==
    /\ ret.fig.raised = "nothing"
    /\ ret.fig.value.kind = "figure"
    /\ Len(ret.fig.value.edge_traces) = Cardinality(DOMAIN G.weight)
    /\ Len(ret.fig.value.edge_traces) >= 1
    /\ Len(ret.fig.value.marker_size) = Len(G.nodes)
    /\ Len(ret.fig.value.text_size) = Len(G.nodes)
    /\ Len(ret.fig.value.hover_text) = Len(G.nodes)

\* The builder called the layout on the graph it returned: it holds what
\* spring_layout gave back.
LayoutAttempted == "pos" \in DOMAIN ret

\* A node of the returned graph carries a position.
LayoutExposed == \E n \in Range(ret.G.nodes) : "pos" \in DOMAIN ret.G.attr[n]

(***************************************************************************)
(* C14, as claimed: when the graph that survives construction and pruning  *)
(* has fewer than 2 nodes the pipeline yields "no graph" (plot_graph       *)
(* returns None) and neither attempts nor exposes a layout for that graph; *)
(* when it has 2 or more nodes a figure is produced without error.         *)
(***************************************************************************)
C14_Original_NoLayoutBelowTwoNodes ==
    Plotted =>
        /\ Len(ret.G.nodes) < 2 => NoGraph /\ ~LayoutAttempted /\ ~LayoutExposed
        /\ Len(ret.G.nodes) >= 2 => FigureOf(ret.G)

(***************************************************************************)
(* C14, amended: when the graph a builder returns has fewer than 2 nodes,  *)
(* plot_graph returns None; the builder has by then run the layout on that *)
(* graph, as on every graph, and every node of the graph, the single node  *)
(* of a one-node graph included, carries the position the layout gave it.  *)
(* When the graph has 2 or more nodes a figure is produced without error.  *)
(***************************************************************************)
C14_NoneBelowTwoNodesLayoutAlwaysRun ==
    Plotted =>
        /\ LayoutAttempted
        /\ DOMAIN ret.pos = Range(ret.G.nodes)
        /\ \A n \in Range(ret.G.nodes) :
              "pos" \in DOMAIN ret.G.attr[n] /\ ret.G.attr[n].pos = ret.pos[n]
        /\ Len(ret.G.nodes) < 2 => NoGraph
        /\ Len(ret.G.nodes) >= 2 => FigureOf(ret.G)

\* C14's case: plot_graph returned None for a graph of one node that carries
\* a position.
C14_Witness_OneNodeWithPosition ==
    /\ Plotted
    /\ Len(ret.G.nodes) = 1
    /\ LayoutExposed
    /\ NoGraph

(***************************************************************************)
(* create_bar_plot                                                         *)
(***************************************************************************)
\* The rows of df that are plotted, and the rows that are not.
Included == Range(ret.value)

Excluded == (1..Len(df)) \ Included

(***************************************************************************)
(* C15: create_bar_plot with parameter top_n plots only the top_n rows of  *)
(* highest x_col value: for every table of more than top_n rows, no row    *)
(* left out has a strictly larger x_col value than a plotted row.          *)
(* (Stated for top_n >= 1, where there is a plotted row.)                  *)
(***************************************************************************)
C15_PlotsRowsOfHighestValue ==
    (/\ call.op = "create_bar_plot"
     /\ Returned
     /\ call.top_n >= 1
     /\ Len(df) > call.top_n) =>
        /\ Cardinality(Included) = call.top_n
        /\ \A i \in Included, j \in Excluded : df[j].x <= df[i].x

\* What the code does: it plots the rows of lowest x_col value, no row left
\* out has a strictly smaller value than a plotted row.
C15_PlotsRowsOfLowestValue ==
    (call.op = "create_bar_plot" /\ Returned /\ Len(df) > call.top_n) =>
        /\ call.top_n >= 0 => Cardinality(Included) = call.top_n
        /\ \A i \in Included, j \in Excluded : df[j].x >= df[i].x

(***************************************************************************)
(* The sub-vocabulary builder                                              *)
(***************************************************************************)
\* The qualifying tokens of row r: the listed words its title holds.
Qualifying(r) == { t \in Range(call.words) : HasToken(df[r].Titel, t) }

\* The rows that contribute: those of two or more qualifying tokens.
Contributing == { r \in 1..Len(df) : Cardinality(Qualifying(r)) >= 2 }

\* The contributing rows in which both tokens of the pair qualify.
RowsOfPair(pair) == { r \in Contributing : pair \subseteq Qualifying(r) }

\* G is the graph in which every contributing row has added its qualifying
\* tokens as nodes and 1 to the weight of each pair of two distinct
\* qualifying tokens, and nothing else was added.
BuiltFromQualifyingSets(G) ==
    /\ Range(G.nodes) = UNION { Qualifying(r) : r \in Contributing }
    /\ \A k \in DOMAIN G.weight :
          /\ Cardinality(k) = 2
          /\ G.weight[k] = Cardinality(RowsOfPair(k))
    /\ \A a, b \in Range(call.words) :
          (a # b /\ RowsOfPair({a, b}) # {}) => {a, b} \in DOMAIN G.weight

NoWordTwice == \A i, j \in 1..Len(call.words) : call.words[i] = call.words[j] => i = j

(***************************************************************************)
(* C16: in generate_graph_data_words(records, words), for every list       *)
(* words, an entry listed more than once or not, the qualifying tokens of  *)
(* a record are the set of listed words its title holds; a record of fewer *)
(* than 2 qualifying tokens adds no node and no edge, and a record of      *)
(* k >= 2 qualifying tokens adds exactly 1 to the weight of each of the    *)
(* k * (k - 1) / 2 pairs of distinct qualifying tokens and to nothing      *)
(* else.                                                                   *)
(***************************************************************************)
C16_RowsAddOneToEachQualifyingPair ==
    call.op = "generate_graph_data_words" => BuiltFromQualifyingSets(ret.G)

\* What the code does: C16 holds when no word is listed twice.
C16_HoldsWithoutRepeatedWords ==
    (call.op = "generate_graph_data_words" /\ NoWordTwice)
        => BuiltFromQualifyingSets(ret.G)

(***************************************************************************)
(* The ego builder                                                         *)
(***************************************************************************)
\* The attributes of node n are the statistics of the whole table.
TableStatistics(G, n) ==
    /\ G.attr[n].freqs = Cardinality(RowsWith({n}))
    /\ G.attr[n].funding = SumAmounts(RowsWith({n}))
    /\ G.attr[n].avg_funding * G.attr[n].freqs <= G.attr[n].funding
    /\ G.attr[n].funding < (G.attr[n].avg_funding + 1) * G.attr[n].freqs

(***************************************************************************)
(* C17: the graph generate_graph_data_word(records, targetWord, topN)      *)
(* returns is a star centred on targetWord: every edge has targetWord as   *)
(* one end and links it to a token of a record that holds targetWord, so   *)
(* for topN >= 1 the graph has at most topN nodes; the freqs, funding and  *)
(* avg_funding of every node are the statistics of the whole table, not of *)
(* the records that hold targetWord only.                                  *)
(***************************************************************************)
C17_EgoGraphIsStarWithTableStatistics ==
    call.op = "generate_graph_data_word" =>
        LET G == ret.G
        IN  /\ \A k \in DOMAIN G.weight :
                  /\ call.word \in k
                  /\ Cardinality(k) = 2
                  /\ RowsWith(k) # {}
            /\ \A n \in Range(G.nodes) : n = call.word \/ {call.word, n} \in DOMAIN G.weight
            /\ call.top_n >= 1 => Len(G.nodes) <= call.top_n
            /\ \A n \in Range(G.nodes) : TableStatistics(G, n)

\* C17's case: pruning cut the star down to top_n nodes, one of them a
\* token that more rows hold than hold it together with the target word.
C17_Witness_StarWithOutsideRows ==
    /\ call.op = "generate_graph_data_word"
    /\ call.top_n >= 2
    /\ Len(ret.G.nodes) = call.top_n
    /\ Len(ret.built.nodes) > call.top_n
    /\ \E n \in Range(ret.G.nodes) :
          /\ n # call.word
          /\ ret.G.attr[n].freqs > Cardinality(RowsWith({n, call.word}))
          /\ ret.G.attr[n].funding > SumAmounts(RowsWith({n, call.word}))

====
